---- MODULE Spec2Model ----
(***************************************************************************)
(* A model of the Landsat GIF animator (src/animate.py): the location      *)
(* resolver, the monthly scene selector, the visualization table and the   *)
(* sequential pipeline of LandsatAnimator.generate_animation and main.     *)
(*                                                                         *)
(* Representation choices:                                                 *)
(*  - a Python str is a sequence of one-character strings, compared by     *)
(*    code point as Python compares str;                                   *)
(*  - 'system:time_start' (milliseconds since the epoch) is held as the    *)
(*    record [s, ms] with date_ms = 1000 * s + ms, because the model       *)
(*    checker's integers are 32 bits wide;                                 *)
(*  - a float parsed from a decimal literal is the record [n, e], the      *)
(*    number n / 10^e;                                                     *)
(*  - the display range bounds 0, 0.3, -1, 1 of the recipes are held in    *)
(*    tenths.                                                              *)
(***************************************************************************)
EXTENDS Integers, Sequences, FiniteSets, TLC

\* ------------------------------------------------------------------------
\* Bounds of the model
\* ------------------------------------------------------------------------
MaxLen == 3        \* longest collection handed to the selector on its own
MaxCloud == 2      \* CLOUD_COVER values are 0..MaxCloud
MaxArchive == 2    \* longest catalog archive in a pipeline run
MaxLocLen == 4     \* longest location string given to get_coordinates alone

\* ------------------------------------------------------------------------
\* Python str
\* ------------------------------------------------------------------------
\* ord() of the characters the model uses
Ord ==
  [c \in {" ", ",", "-", ".", "0", "1", "2", "3", "4", "5", "6", "7", "8", "9",
          "_", "a"} |->
     CASE c = " " -> 32 [] c = "," -> 44 [] c = "-" -> 45 [] c = "." -> 46
       [] c = "0" -> 48 [] c = "1" -> 49 [] c = "2" -> 50 [] c = "3" -> 51
       [] c = "4" -> 52 [] c = "5" -> 53 [] c = "6" -> 54 [] c = "7" -> 55
       [] c = "8" -> 56 [] c = "9" -> 57 [] c = "_" -> 95 [] c = "a" -> 97]

\* a < b on two str values: lexicographic by code point
RECURSIVE StrLess(_, _)
StrLess(a, b) ==
  IF a = <<>> THEN b /= <<>>
  ELSE IF b = <<>> THEN FALSE
  ELSE IF Ord[a[1]] /= Ord[b[1]] THEN Ord[a[1]] < Ord[b[1]]
  ELSE StrLess(Tail(a), Tail(b))

DigitChar(d) == <<"0", "1", "2", "3", "4", "5", "6", "7", "8", "9">>[d + 1]

\* the decimal digits of a natural number, without padding
RECURSIVE Dec(_)
Dec(n) == IF n < 10 THEN <<DigitChar(n)>> ELSE Dec(n \div 10) \o <<DigitChar(n % 10)>>

\* a natural number zero-padded on the left to at least w characters
RECURSIVE Pad(_, _)
Pad(s, w) == IF Len(s) >= w THEN s ELSE Pad(<<"0">> \o s, w)

\* ------------------------------------------------------------------------
\* datetime.utcfromtimestamp(date_ms / 1000).strftime('%Y-%m')
\* ------------------------------------------------------------------------
\* the proleptic Gregorian year and month of the day `days` after 1970-01-01
CivilFromDays(days) ==
  LET z == days + 719468
      era == z \div 146097
      doe == z - era * 146097
      yoe == (doe - doe \div 1460 + doe \div 36524 - doe \div 146096) \div 365
      doy == doe - (365 * yoe + yoe \div 4 - yoe \div 100)
      mp == (5 * doy + 2) \div 153
      m == IF mp < 10 THEN mp + 3 ELSE mp - 9
      y == yoe + era * 400 + (IF m <= 2 THEN 1 ELSE 0)
  IN [year |-> y, month |-> m]

UtcFromTimestamp(date_ms) == CivilFromDays(date_ms.s \div 86400)

StrfYm(date_obj) == Dec(date_obj.year) \o <<"-">> \o Pad(Dec(date_obj.month), 2)

DateStrWithDay(date_ms) ==
  StrfYm(UtcFromTimestamp(date_ms))
    \o <<"-">> \o Pad(Dec(((date_ms.s \div 86400) % 28) + 1), 2)

DateStr(date_ms) == StrfYm(UtcFromTimestamp(date_ms))

\* ------------------------------------------------------------------------
\* Python dict, in insertion order: a sequence of <<key, value>> pairs
\* ------------------------------------------------------------------------
DictHas(d, k) == \E j \in 1..Len(d) : d[j][1] = k

DictGet(d, k) == d[CHOOSE j \in 1..Len(d) : d[j][1] = k][2]

DictSet(d, k, v) ==
  IF DictHas(d, k)
  THEN [j \in 1..Len(d) |-> IF d[j][1] = k THEN <<k, v>> ELSE d[j]]
  ELSE Append(d, <<k, v>>)

DictValues(d) == [j \in 1..Len(d) |-> d[j][2]]

\* ------------------------------------------------------------------------
\* LandsatAnimator.get_monthly_images
\* ------------------------------------------------------------------------
\* the condition of line 250: a new month, or strictly less cloud
KeepsTies(monthly, date_str, cloud) ==
  ~DictHas(monthly, date_str) \/ cloud <= DictGet(monthly, date_str).cloud_cover

FirstSeenOnly(monthly, date_str, cloud) == ~DictHas(monthly, date_str)

ShouldStore(monthly, date_str, cloud) ==
  ~DictHas(monthly, date_str) \/ cloud < DictGet(monthly, date_str).cloud_cover

\* the loop of lines 241-255, from index i on (Python index i - 1)
RECURSIVE GroupByMonth(_, _, _, _)
GroupByMonth(dates, cloud_covers, i, monthly) ==
  IF i > Len(dates) THEN monthly
  ELSE LET date_str == DateStr(dates[i])
           cloud == cloud_covers[i]
       IN GroupByMonth(dates, cloud_covers, i + 1,
            IF ShouldStore(monthly, date_str, cloud)
            THEN DictSet(monthly, date_str,
                   [image |-> i, date |-> date_str, cloud_cover |-> cloud])
            ELSE monthly)

\* sorted(values, key=lambda x: x['date']): a stable sort on the key
RECURSIVE InsertSorted(_, _)
InsertSorted(sorted, x) ==
  IF sorted = <<>> THEN <<x>>
  ELSE IF StrLess(x.date, sorted[Len(sorted)].date)
       THEN Append(InsertSorted(SubSeq(sorted, 1, Len(sorted) - 1), x),
                   sorted[Len(sorted)])
       ELSE Append(sorted, x)

RECURSIVE SortedPrefix(_, _)
SortedPrefix(values, n) ==
  IF n = 0 THEN <<>> ELSE InsertSorted(SortedPrefix(values, n - 1), values[n])

Unsorted(values) == values

SortedByDate(values) == SortedPrefix(values, Len(values))

AggregateArray(coll, prop) ==
  [j \in 1..Len(coll) |-> IF prop = "system:time_start" THEN coll[j].time_start
                          ELSE coll[j].CLOUD_COVER]

\* the value get_monthly_images returns for a collection whose queries succeed
MonthlyImages(coll) ==
  IF Len(coll) = 0 THEN <<>>
  ELSE SortedByDate(DictValues(
         GroupByMonth(AggregateArray(coll, "system:time_start"),
                      AggregateArray(coll, "CLOUD_COVER"), 1, <<>>)))

\* ------------------------------------------------------------------------
\* LandsatAnimator.get_coordinates
\* ------------------------------------------------------------------------
IsDigit(c) == c \in {"0", "1", "2", "3", "4", "5", "6", "7", "8", "9"}

StrContains(s, c) == \E j \in 1..Len(s) : s[j] = c

\* s.split(sep) for a one-character separator
RECURSIVE Split(_, _)
Split(s, sep) ==
  IF ~StrContains(s, sep) THEN <<s>>
  ELSE LET j == CHOOSE x \in 1..Len(s) :
                  s[x] = sep /\ \A y \in 1..(x - 1) : s[y] /= sep
       IN <<SubSeq(s, 1, j - 1)>> \o Split(SubSeq(s, j + 1, Len(s)), sep)

\* s.strip(): leading and trailing whitespace removed
RECURSIVE Strip(_)
Strip(s) ==
  IF s = <<>> THEN s
  ELSE IF s[1] = " " THEN Strip(Tail(s))
  ELSE IF s[Len(s)] = " " THEN Strip(SubSeq(s, 1, Len(s) - 1))
  ELSE s

RECURSIVE DigitsValue(_)
DigitsValue(ds) ==
  IF ds = <<>> THEN 0
  ELSE 10 * DigitsValue(SubSeq(ds, 1, Len(ds) - 1)) + (Ord[ds[Len(ds)]] - 48)

\* float(s) on the characters of the model: an optional sign, then digits
\* with at most one decimal point and at least one digit; anything else is a
\* ValueError (ok = FALSE). The value is n / 10^e.
ParseFloat(s) ==
  LET neg == s /= <<>> /\ s[1] = "-"
      body == IF neg THEN Tail(s) ELSE s
      points == {j \in 1..Len(body) : body[j] = "."}
      digits == SelectSeq(body, IsDigit)
      ok == /\ digits /= <<>>
            /\ Cardinality(points) <= 1
            /\ \A j \in 1..Len(body) : IsDigit(body[j]) \/ body[j] = "."
      e == IF points = {} THEN 0 ELSE Len(body) - (CHOOSE j \in points : TRUE)
      n == (IF neg THEN -1 ELSE 1) * DigitsValue(digits)
  IN IF ok THEN [ok |-> TRUE, n |-> n, e |-> e] ELSE [ok |-> FALSE]

ParseLonLat(location) ==
  IF ~StrContains(location, ",") THEN [ok |-> FALSE]
  ELSE LET parts == Split(location, ",")
           lat == ParseFloat(Strip(parts[1]))
           lon == ParseFloat(Strip(parts[2]))
       IN IF lat.ok /\ lon.ok
          THEN [ok |-> TRUE, lat |-> [n |-> lon.n, e |-> lon.e],
                lon |-> [n |-> lat.n, e |-> lat.e]]
          ELSE [ok |-> FALSE]

\* lines 124-131: [ok, lat, lon] when the string is taken as "lat,lon"
ParseLatLon(location) ==
  IF ~StrContains(location, ",") THEN [ok |-> FALSE]
  ELSE LET parts == Split(location, ",")
           lat == ParseFloat(Strip(parts[1]))
           lon == ParseFloat(Strip(parts[2]))
       IN IF lat.ok /\ lon.ok
          THEN [ok |-> TRUE, lat |-> [n |-> lat.n, e |-> lat.e],
                lon |-> [n |-> lon.n, e |-> lon.e]]
          ELSE [ok |-> FALSE]

\* what the geocoding service can answer for a place it knows (Paris, Quito)
GeocoderAnswers ==
  { <<[n |-> 488566, e |-> 4], [n |-> 23522, e |-> 4]>>,
    <<[n |-> -2, e |-> 1], [n |-> -785, e |-> 1]>> }

\* ------------------------------------------------------------------------
\* LandsatAnimator.VISUALIZATION_MODES and apply_visualization
\* ------------------------------------------------------------------------
\* min and max are in tenths: 3 is 0.3, -10 is -1, 10 is 1. The 'bands' of an
\* expression recipe is a dict, held in insertion order.
VISUALIZATION_MODES ==
  [m \in {"rgb", "false_color", "ndvi", "panchromatic", "built_up", "snow"} |->
     CASE m = "rgb" ->
            [bands |-> <<"SR_B4", "SR_B3", "SR_B2">>, min |-> 0, max |-> 3,
             description |-> "Natural color (RGB)"]
       [] m = "false_color" ->
            [bands |-> <<"SR_B5", "SR_B4", "SR_B3">>, min |-> 0, max |-> 3,
             description |-> "False color infrared"]
       [] m = "ndvi" ->
            [expression |-> "(NIR - RED) / (NIR + RED)",
             bands |-> << <<"NIR", "SR_B5">>, <<"RED", "SR_B4">> >>,
             palette |-> <<"blue", "white", "green">>,
             min |-> -10, max |-> 10,
             description |-> "Normalized Difference Vegetation Index"]
       [] m = "panchromatic" ->
            [bands |-> <<"SR_B8">>, min |-> 0, max |-> 3,
             description |-> "Panchromatic (grayscale)"]
       [] m = "built_up" ->
            [expression |-> "(SWIR - NIR) / (SWIR + NIR)",
             bands |-> << <<"SWIR", "SR_B6">>, <<"NIR", "SR_B5">> >>,
             palette |-> <<"white", "yellow", "red">>,
             min |-> -10, max |-> 10,
             description |-> "Built-up index"]
       [] m = "snow" ->
            [expression |-> "(GREEN - SWIR) / (GREEN + SWIR)",
             bands |-> << <<"GREEN", "SR_B3">>, <<"SWIR", "SR_B6">> >>,
             palette |-> <<"black", "cyan", "white">>,
             min |-> -10, max |-> 10,
             description |-> "Normalized Difference Snow Index"]]

ModeKeys == DOMAIN VISUALIZATION_MODES

\* a mode name that is no key of the table
UnknownModes == {"thermal"}

\* line 273: VISUALIZATION_MODES.get(mode, VISUALIZATION_MODES['rgb'])
VisConfig(mode) ==
  IF mode \in ModeKeys THEN VISUALIZATION_MODES[mode] ELSE VISUALIZATION_MODES["rgb"]

\* line 275: 'expression' in vis_config
HasPalette(vis_config) == "palette" \in DOMAIN vis_config

HasFormula(vis_config) == "formula" \in DOMAIN vis_config

HasExpression(vis_config) == "expression" \in DOMAIN vis_config

\* lines 273-296: the image apply_visualization returns, as the chain of
\* Earth Engine calls that builds it
ApplyVisualization(image, mode) ==
  LET vis_config == VisConfig(mode)
  IN IF HasExpression(vis_config)
     THEN IF HasPalette(vis_config)
          THEN [image |-> image, mode |-> mode, call |-> "expression.visualize",
                expression |-> vis_config.expression, bands |-> vis_config.bands,
                min |-> vis_config.min, max |-> vis_config.max,
                palette |-> vis_config.palette]
          ELSE [image |-> image, mode |-> mode, call |-> "expression",
                expression |-> vis_config.expression, bands |-> vis_config.bands]
     ELSE [image |-> image, mode |-> mode, call |-> "select.visualize",
           bands |-> vis_config.bands,
           min |-> vis_config.min, max |-> vis_config.max]

\* ------------------------------------------------------------------------
\* File names
\* ------------------------------------------------------------------------
OutputDir == <<"output", "/">>

\* line 396 and os.path.join of line 315
SameFrameName(date) == OutputDir \o <<"landsat_", ".png">>

FramePath(date) == OutputDir \o <<"landsat_">> \o date \o <<".png">>

\* location.replace(' ', '_').replace(',', '_')
LocationSafe(location) ==
  [j \in 1..Len(location) |->
     IF location[j] \in {" ", ","} THEN "_" ELSE location[j]]

\* lines 402-403 and os.path.join of line 334; the timestamp is left symbolic
GifPath(location, mode) ==
  OutputDir \o <<"landsat_">> \o LocationSafe(location)
            \o <<"_", mode, "_", "%Y%m%d_%H%M%S", ".gif">>

\* ------------------------------------------------------------------------
\* The catalog
\* ------------------------------------------------------------------------
\* 2013-01-01T00:00:00Z, the start_date of line 365, in seconds
StartDate == 1356998400

\* the end_date of line 366 (the day of the run, 2020-03-01), in seconds
EndDate == 1583020800

\* lines 208-212: filterDate and the CLOUD_COVER filter, in catalog order
FilterCollection(archive, cloud_cover) ==
  SelectSeq(archive,
    LAMBDA sc : /\ StartDate <= sc.time_start.s
                /\ sc.time_start.s < EndDate
                /\ sc.CLOUD_COVER < cloud_cover)

\* ------------------------------------------------------------------------
\* State
\* ------------------------------------------------------------------------
VARIABLES
  entry,           \* the function the caller invoked
  pc,              \* the statement the run is at
  location,        \* parameters of generate_animation
  mode,
  cloud_cover,
  fps,
  coords,          \* <<lat, lon>> once get_coordinates returned, else <<>>
  geocoder_calls,  \* number of geolocator.geocode calls made
  authenticated,   \* ee.Initialize succeeded
  region,          \* <<the rectangle>> once calculate_region returned
  queries,         \* number of getInfo round trips to the catalog
  collection,      \* the scenes of the filtered ImageCollection
  monthly_images,  \* the list get_monthly_images returned
  rendered,        \* the images apply_visualization returned, in call order
  image_files,     \* the local list of generate_animation
  disk,            \* the files in the output directory
  read,            \* the files imageio.imread returned, in call order
  encoded,         \* imageio.mimsave has written the GIF
  removed,         \* number of os.remove calls that returned
  echoed,          \* what click.echo printed
  raised,          \* <<type, message>> of the exception that ended the call
  exit_code,       \* <<status>> once the process exited
  gif_path         \* <<path>> once generate_animation returned

vars ==
  <<entry, pc, location, mode, cloud_cover, fps, coords, geocoder_calls,
    authenticated, region, queries, collection, monthly_images, rendered,
    image_files, disk, read, encoded, removed, echoed, raised, exit_code,
    gif_path>>

paramVars == <<entry, location, mode, cloud_cover, fps>>

frameVars == <<rendered, image_files, disk, read, encoded, removed, gif_path>>

searchVars == <<queries, collection, monthly_images>>

\* ------------------------------------------------------------------------
\* Inputs
\* ------------------------------------------------------------------------
SeqsUpTo(S, n) == UNION {[1..k -> S] : k \in 0..n}

\* acquisition times around month and year boundaries:
\* 2019-12-31T23:59:59.999Z, 2020-01-01T00:00:00Z, 2020-01-31T23:59:59.999Z,
\* 2020-02-01T00:00:00Z, 2020-10-01T00:00:00Z
Dates ==
  { [s |-> 1577836799, ms |-> 999], [s |-> 1577836800, ms |-> 0],
    [s |-> 1580515199, ms |-> 999], [s |-> 1580515200, ms |-> 0],
    [s |-> 1601510400, ms |-> 0] }

Scenes == [time_start : Dates, CLOUD_COVER : 0..MaxCloud]

\* what the catalog can hold for the region of a pipeline run
ArchiveScenes ==
  { [time_start |-> [s |-> 1577836799, ms |-> 999], CLOUD_COVER |-> 0],
    [time_start |-> [s |-> 1577836800, ms |-> 0], CLOUD_COVER |-> 1],
    [time_start |-> [s |-> 1580515199, ms |-> 999], CLOUD_COVER |-> 1],
    [time_start |-> [s |-> 1580515199, ms |-> 999], CLOUD_COVER |-> 0],
    [time_start |-> [s |-> 1580515200, ms |-> 0], CLOUD_COVER |-> 0] }

LocChars == {"9", "1", "-", ".", ",", " ", "a"}

\* "9.1,-1", "99,191", "a" and "a,1"
PipelineLocations ==
  { <<"9", ".", "1", ",", "-", "1">>, <<"9", "9", ",", "1", "9", "1">>,
    <<"a">>, <<"a", ",", "1">> }

CloudCoverArgs == {1, 2}

FpsArgs == {12}

\* ------------------------------------------------------------------------
\* Exceptions and exits
\* ------------------------------------------------------------------------
RaiseSwallowed(exc, msg) ==
  /\ raised' = <<exc, msg>>
  /\ echoed' = Append(echoed, <<"Error", msg>>)
  /\ IF entry = "main"
     THEN exit_code' = <<0>> /\ pc' = "exit"
     ELSE pc' = "returned" /\ UNCHANGED exit_code

\* an exception leaves generate_animation (or the function called directly):
\* main catches it at line 447, prints it and exits 1; another caller gets it
Raise(exc, msg) ==
  /\ raised' = <<exc, msg>>
  /\ IF entry = "main"
     THEN /\ echoed' = Append(echoed, <<"Error", msg>>)
          /\ exit_code' = <<1>>
          /\ pc' = "exit"
     ELSE /\ pc' = "raised"
          /\ UNCHANGED <<echoed, exit_code>>

\* sys.exit(status) after a message: SystemExit is no Exception, so the
\* handler of line 447 lets it through
SysExit(msg, status) ==
  /\ raised' = <<"SystemExit", status>>
  /\ echoed' = Append(echoed, msg)
  /\ exit_code' = <<status>>
  /\ pc' = "exit"

\* ------------------------------------------------------------------------
\* main (lines 417-449)
\* ------------------------------------------------------------------------
\* click.Choice rejects a mode that is no key: usage error, status 2
CliRejectMode ==
  /\ pc = "cli"
  /\ mode \notin ModeKeys
  /\ echoed' = Append(echoed, <<"Usage error", mode>>)
  /\ exit_code' = <<2>>
  /\ pc' = "exit"
  /\ UNCHANGED <<paramVars, coords, geocoder_calls, authenticated, region,
                 searchVars, frameVars, raised>>

Main ==
  /\ pc = "cli"
  /\ mode \in ModeKeys
  /\ echoed' = Append(echoed, <<"Available visualization modes">>)
  /\ pc' = "generate_animation"
  /\ UNCHANGED <<paramVars, coords, geocoder_calls, authenticated, region,
                 searchVars, frameVars, raised, exit_code>>

\* ------------------------------------------------------------------------
\* generate_animation (lines 339-414), statement by statement
\* ------------------------------------------------------------------------
GenerateAnimation ==
  /\ pc = "generate_animation"
  /\ echoed' = Append(echoed, <<"Processing location", location>>)
  /\ pc' = "get_coordinates"
  /\ UNCHANGED <<paramVars, coords, geocoder_calls, authenticated, region,
                 searchVars, frameVars, raised, exit_code>>

\* get_coordinates returned lat, lon to its caller
CoordinatesReturned(lat, lon) ==
  /\ coords' = <<lat, lon>>
  /\ IF entry = "get_coordinates"
     THEN pc' = "returned" /\ UNCHANGED echoed
     ELSE /\ pc' = "initialize_earth_engine"
          /\ echoed' = Append(echoed, <<"Coordinates", lat, lon>>)

\* lines 124-129
GetCoordinatesParsed ==
  /\ pc = "get_coordinates"
  /\ ParseLatLon(location).ok
  /\ CoordinatesReturned(ParseLatLon(location).lat, ParseLatLon(location).lon)
  /\ UNCHANGED <<paramVars, geocoder_calls, authenticated, region, searchVars,
                 frameVars, raised, exit_code>>

\* lines 134-138
GetCoordinatesGeocoded ==
  /\ pc = "get_coordinates"
  /\ ~ParseLatLon(location).ok
  /\ geocoder_calls' = geocoder_calls + 1
  /\ \E answer \in GeocoderAnswers : CoordinatesReturned(answer[1], answer[2])
  /\ UNCHANGED <<paramVars, authenticated, region, searchVars, frameVars,
                 raised, exit_code>>

\* lines 139-140 and 141-142: no such place; the ValueError of line 140 is
\* caught at line 141 and raised again as a ValueError
GetCoordinatesNotFound ==
  /\ pc = "get_coordinates"
  /\ ~ParseLatLon(location).ok
  /\ geocoder_calls' = geocoder_calls + 1
  /\ Raise("ValueError", "Error geocoding location: Could not find location")
  /\ UNCHANGED <<paramVars, coords, authenticated, region, searchVars, frameVars>>

\* lines 141-142: the geocoder call itself failed
GetCoordinatesGeocoderError ==
  /\ pc = "get_coordinates"
  /\ ~ParseLatLon(location).ok
  /\ geocoder_calls' = geocoder_calls + 1
  /\ Raise("ValueError", "Error geocoding location: service error")
  /\ UNCHANGED <<paramVars, coords, authenticated, region, searchVars, frameVars>>

\* lines 74-104: one of the three credential sources, and ee.Initialize succeeds
InitializeEarthEngine ==
  /\ pc = "initialize_earth_engine"
  /\ authenticated' = TRUE
  /\ \E source \in {"service account", "credentials file", "default"} :
       echoed' = Append(echoed, <<"Authenticated", source>>)
  /\ pc' = "calculate_region"
  /\ UNCHANGED <<paramVars, coords, geocoder_calls, region, searchVars,
                 frameVars, raised, exit_code>>

\* lines 105-111
InitializeEarthEngineError ==
  /\ pc = "initialize_earth_engine"
  /\ SysExit(<<"Error initializing Earth Engine">>, 1)
  /\ UNCHANGED <<paramVars, coords, geocoder_calls, authenticated, region,
                 searchVars, frameVars>>

\* lines 144-173, called at line 362: the rectangle around (lat, lon)
CalculateRegion ==
  /\ pc = "calculate_region"
  /\ region' = <<[lat |-> coords[1], lon |-> coords[2], scale |-> 60000]>>
  /\ pc' = "describe_mode"
  /\ UNCHANGED <<paramVars, coords, geocoder_calls, authenticated, searchVars,
                 frameVars, echoed, raised, exit_code>>

\* lines 368-374
DescribeMode ==
  /\ pc = "describe_mode"
  /\ mode \in ModeKeys
  /\ echoed' = Append(echoed,
       <<"Visualization mode", mode, VISUALIZATION_MODES[mode].description>>)
  /\ pc' = "get_landsat_collection"
  /\ UNCHANGED <<paramVars, coords, geocoder_calls, authenticated, region,
                 searchVars, frameVars, raised, exit_code>>

\* line 370: VISUALIZATION_MODES[mode] for a mode that is no key
DescribeModeKeyError ==
  /\ pc = "describe_mode"
  /\ mode \notin ModeKeys
  /\ Raise("KeyError", mode)
  /\ UNCHANGED <<paramVars, coords, geocoder_calls, authenticated, region,
                 searchVars, frameVars>>

\* lines 191-214, called at line 376: the catalog holds some archive for the
\* region; the collection is what the filters leave of it
GetLandsatCollection ==
  /\ pc = "get_landsat_collection"
  /\ \E archive \in SeqsUpTo(ArchiveScenes, MaxArchive) :
       collection' = FilterCollection(archive, cloud_cover)
  /\ pc' = "get_monthly_images"
  /\ UNCHANGED <<paramVars, coords, geocoder_calls, authenticated, region,
                 queries, monthly_images, frameVars, echoed, raised, exit_code>>

\* the getInfo calls of lines 228, 235 and 236
QueriesMade(coll) == IF Len(coll) = 0 THEN 1 ELSE 3

\* lines 216-260, every query answered
GetMonthlyImages ==
  /\ pc = "get_monthly_images"
  /\ queries' = queries + QueriesMade(collection)
  /\ monthly_images' = MonthlyImages(collection)
  /\ pc' = IF entry = "get_monthly_images" THEN "returned" ELSE "check_images"
  /\ UNCHANGED <<paramVars, coords, geocoder_calls, authenticated, region,
                 collection, frameVars, echoed, raised, exit_code>>

GetMonthlyImagesCaught ==
  /\ pc = "get_monthly_images"
  /\ \E q \in 1..QueriesMade(collection) : queries' = queries + q
  /\ monthly_images' = <<>>
  /\ echoed' = Append(echoed, <<"Error searching catalog">>)
  /\ pc' = IF entry = "get_monthly_images" THEN "returned" ELSE "check_images"
  /\ UNCHANGED <<paramVars, coords, geocoder_calls, authenticated, region,
                 collection, frameVars, raised, exit_code>>

\* lines 228-236: the q-th getInfo call fails; nothing catches it here
GetMonthlyImagesError ==
  /\ pc = "get_monthly_images"
  /\ \E q \in 1..QueriesMade(collection) : queries' = queries + q
  /\ Raise("EEException", "catalog query failed")
  /\ UNCHANGED <<paramVars, coords, geocoder_calls, authenticated, region,
                 collection, monthly_images, frameVars>>

\* lines 381-383
NoImages ==
  /\ pc = "check_images"
  /\ monthly_images = <<>>
  /\ SysExit(<<"Error: No images found matching criteria">>, 1)
  /\ UNCHANGED <<paramVars, coords, geocoder_calls, authenticated, region,
                 searchVars, frameVars>>

\* line 385
FoundImages ==
  /\ pc = "check_images"
  /\ monthly_images /= <<>>
  /\ echoed' = Append(echoed, <<"Found monthly images", Len(monthly_images)>>)
  /\ pc' = "download"
  /\ UNCHANGED <<paramVars, coords, geocoder_calls, authenticated, region,
                 searchVars, frameVars, raised, exit_code>>

\* the scene the loop of lines 391-398 is at
CurrentImage == monthly_images[Len(image_files) + 1]

\* lines 391-398, one iteration: apply_visualization, download_image, append
DownloadFrame ==
  /\ pc = "download"
  /\ Len(image_files) < Len(monthly_images)
  /\ rendered' = Append(rendered, ApplyVisualization(CurrentImage.image, mode))
  /\ disk' = disk \cup {FramePath(CurrentImage.date)}
  /\ image_files' = Append(image_files, FramePath(CurrentImage.date))
  /\ UNCHANGED <<paramVars, coords, geocoder_calls, authenticated, region,
                 searchVars, read, encoded, removed, gif_path, pc, echoed,
                 raised, exit_code>>

\* lines 308-316 fail: getDownloadURL raises (no file), or urlretrieve raises
\* (a partial file may be left)
DownloadFrameError ==
  /\ pc = "download"
  /\ Len(image_files) < Len(monthly_images)
  /\ rendered' = Append(rendered, ApplyVisualization(CurrentImage.image, mode))
  /\ \E partial \in BOOLEAN :
       disk' = IF partial THEN disk \cup {FramePath(CurrentImage.date)} ELSE disk
  /\ Raise("Exception", "download failed")
  /\ UNCHANGED <<paramVars, coords, geocoder_calls, authenticated, region,
                 searchVars, image_files, read, encoded, removed, gif_path>>

\* imageio.imread succeeds on the first n frame files
Readable(n) == \A j \in 1..n : image_files[j] \in disk

\* lines 401-404 and 320-337: every file read in order, then the GIF saved
CreateGif ==
  /\ pc = "download"
  /\ Len(image_files) = Len(monthly_images)
  /\ Readable(Len(image_files))
  /\ read' = image_files
  /\ encoded' = TRUE
  /\ disk' = disk \cup {GifPath(location, mode)}
  /\ echoed' = Append(echoed, <<"Creating animated GIF...">>)
  /\ pc' = "cleanup"
  /\ UNCHANGED <<paramVars, coords, geocoder_calls, authenticated, region,
                 searchVars, rendered, image_files, removed, gif_path, raised,
                 exit_code>>

\* create_gif fails: imread after n files, or mimsave
CreateGifError ==
  /\ pc = "download"
  /\ Len(image_files) = Len(monthly_images)
  /\ \E n \in 0..Len(image_files) :
       /\ Readable(n)
       /\ read' = SubSeq(image_files, 1, n)
  /\ Raise("Exception", "encoding failed")
  /\ UNCHANGED <<paramVars, coords, geocoder_calls, authenticated, region,
                 searchVars, rendered, image_files, disk, encoded, removed,
                 gif_path>>

RemoveFrameSkipped ==
  /\ pc = "cleanup"
  /\ removed < Len(image_files)
  /\ removed' = removed + 1
  /\ UNCHANGED <<paramVars, coords, geocoder_calls, authenticated, region,
                 searchVars, rendered, image_files, disk, read, encoded,
                 gif_path, pc, echoed, raised, exit_code>>

\* lines 407-408, one iteration
RemoveFrame ==
  /\ pc = "cleanup"
  /\ removed < Len(image_files)
  /\ image_files[removed + 1] \in disk
  /\ disk' = disk \ {image_files[removed + 1]}
  /\ removed' = removed + 1
  /\ UNCHANGED <<paramVars, coords, geocoder_calls, authenticated, region,
                 searchVars, rendered, image_files, read, encoded, gif_path,
                 pc, echoed, raised, exit_code>>

\* os.remove raises: the file is gone, or the system refuses
RemoveFrameError ==
  /\ pc = "cleanup"
  /\ removed < Len(image_files)
  /\ Raise("OSError", "remove failed")
  /\ UNCHANGED <<paramVars, coords, geocoder_calls, authenticated, region,
                 searchVars, frameVars>>

\* lines 410-414, and the normal end of main
Finish ==
  /\ pc = "cleanup"
  /\ removed = Len(image_files)
  /\ echoed' = echoed \o << <<"GIF created successfully", GifPath(location, mode)>>,
                           <<"Number of frames", Len(image_files)>>,
                           <<"Frame rate", fps>> >>
  /\ gif_path' = <<GifPath(location, mode)>>
  /\ IF entry = "main"
     THEN pc' = "exit" /\ exit_code' = <<0>>
     ELSE pc' = "returned" /\ UNCHANGED exit_code
  /\ UNCHANGED <<paramVars, coords, geocoder_calls, authenticated, region,
                 searchVars, rendered, image_files, disk, read, encoded,
                 removed, raised>>

\* apply_visualization called on its own (lines 262-296)
ApplyVisualizationCall ==
  /\ pc = "apply_visualization"
  /\ rendered' = Append(rendered, ApplyVisualization(1, mode))
  /\ pc' = "returned"
  /\ UNCHANGED <<paramVars, coords, geocoder_calls, authenticated, region,
                 searchVars, image_files, disk, read, encoded, removed,
                 gif_path, echoed, raised, exit_code>>

\* ------------------------------------------------------------------------
\* Specifications
\* ------------------------------------------------------------------------
\* the state after LandsatAnimator() (lines 69-72), before any call
Fresh ==
  /\ coords = <<>>
  /\ geocoder_calls = 0
  /\ authenticated = FALSE
  /\ region = <<>>
  /\ queries = 0
  /\ monthly_images = <<>>
  /\ rendered = <<>>
  /\ image_files = <<>>
  /\ disk = {}
  /\ read = <<>>
  /\ encoded = FALSE
  /\ removed = 0
  /\ echoed = <<>>
  /\ raised = <<>>
  /\ exit_code = <<>>
  /\ gif_path = <<>>

\* a run of the command line (main), a call of generate_animation as in
\* src/example.py, or a call of apply_visualization
Init ==
  /\ Fresh
  /\ collection = <<>>
  /\ mode \in ModeKeys \cup UnknownModes
  /\ \/ /\ entry = "main"
        /\ pc = "cli"
        /\ location \in PipelineLocations
        /\ cloud_cover \in CloudCoverArgs
        /\ fps \in FpsArgs
     \/ /\ entry = "generate_animation"
        /\ pc = "generate_animation"
        /\ location \in PipelineLocations
        /\ cloud_cover \in CloudCoverArgs
        /\ fps \in FpsArgs
     \/ /\ entry = "apply_visualization"
        /\ pc = "apply_visualization"
        /\ location = <<>>
        /\ cloud_cover = 10
        /\ fps = 12

Next ==
  \/ CliRejectMode
  \/ Main
  \/ GenerateAnimation
  \/ GetCoordinatesParsed
  \/ GetCoordinatesGeocoded
  \/ GetCoordinatesNotFound
  \/ GetCoordinatesGeocoderError
  \/ InitializeEarthEngine
  \/ InitializeEarthEngineError
  \/ CalculateRegion
  \/ DescribeMode
  \/ DescribeModeKeyError
  \/ GetLandsatCollection
  \/ GetMonthlyImages
  \/ GetMonthlyImagesError
  \/ NoImages
  \/ FoundImages
  \/ DownloadFrame
  \/ DownloadFrameError
  \/ CreateGif
  \/ CreateGifError
  \/ RemoveFrame
  \/ RemoveFrameError
  \/ Finish
  \/ ApplyVisualizationCall

Spec == Init /\ [][Next]_vars

\* get_monthly_images called on its own, on every collection up to MaxLen
InitSel ==
  /\ Fresh
  /\ entry = "get_monthly_images"
  /\ pc = "get_monthly_images"
  /\ location = <<>>
  /\ mode = "rgb"
  /\ cloud_cover = 10
  /\ fps = 12
  /\ collection \in SeqsUpTo(Scenes, MaxLen)

NextSel == GetMonthlyImages \/ GetMonthlyImagesError

SpecSel == InitSel /\ [][NextSel]_vars

\* get_coordinates called on its own, on every string up to MaxLocLen
InitCoord ==
  /\ Fresh
  /\ entry = "get_coordinates"
  /\ pc = "get_coordinates"
  /\ location \in SeqsUpTo(LocChars, MaxLocLen)
  /\ mode = "rgb"
  /\ cloud_cover = 10
  /\ fps = 12
  /\ collection = <<>>

NextCoord ==
  \/ GetCoordinatesParsed
  \/ GetCoordinatesGeocoded
  \/ GetCoordinatesNotFound
  \/ GetCoordinatesGeocoderError

SpecCoord == InitCoord /\ [][NextCoord]_vars

\* ------------------------------------------------------------------------
\* Vocabulary of the properties
\* ------------------------------------------------------------------------
Last(seq) == seq[Len(seq)]

RECURSIVE Pow10(_)
Pow10(e) == IF e = 0 THEN 1 ELSE 10 * Pow10(e - 1)

\* lo <= x <= hi for a parsed float x and integers lo, hi
InRange(x, lo, hi) == lo * Pow10(x.e) <= x.n /\ x.n <= hi * Pow10(x.e)

\* the calendar month of each acquisition time of Dates, worked out by hand
\* as 12 * year + month
MonthOf(date_ms) ==
  CASE date_ms.s = 1577836799 -> 12 * 2019 + 12
    [] date_ms.s = 1577836800 -> 12 * 2020 + 1
    [] date_ms.s = 1580515199 -> 12 * 2020 + 1
    [] date_ms.s = 1580515200 -> 12 * 2020 + 2
    [] date_ms.s = 1601510400 -> 12 * 2020 + 10

\* the calendar month a 'YYYY-MM...' key names, as 12 * year + month
KeyMonth(date_str) ==
  LET parts == Split(date_str, "-")
  IN 12 * DigitsValue(parts[1]) + (IF Len(parts) > 1 THEN DigitsValue(parts[2]) ELSE 0)

SelectorReturned == entry = "get_monthly_images" /\ pc = "returned"

\* the input positions whose scene falls in calendar month k
InMonth(k) == {j \in 1..Len(collection) : MonthOf(collection[j].time_start) = k}

InputMonths == {MonthOf(collection[j].time_start) : j \in 1..Len(collection)}

\* C1: for a non-empty input, get_monthly_images returns at most one scene
\* per year-month key, and the keys returned are exactly the keys of the input.
C1_OnePerMonth ==
  (SelectorReturned /\ collection /= <<>>) =>
    /\ \A a, b \in 1..Len(monthly_images) :
         a /= b => /\ monthly_images[a].date /= monthly_images[b].date
                   /\ KeyMonth(monthly_images[a].date) /= KeyMonth(monthly_images[b].date)
    /\ {KeyMonth(monthly_images[a].date) : a \in 1..Len(monthly_images)} = InputMonths
    /\ \A a \in 1..Len(monthly_images) :
         /\ monthly_images[a].image \in 1..Len(collection)
         /\ MonthOf(collection[monthly_images[a].image].time_start)
              = KeyMonth(monthly_images[a].date)

C1_Witness ==
  /\ SelectorReturned
  /\ Len(collection) = 3
  /\ Cardinality(InputMonths) = 2
  /\ Len(monthly_images) = 2

\* C2: the scene returned for a key has the least cloud cover of the input
\* scenes of that key, and among those with the least value it is the first
\* in input order.
C2_LeastCloudFirstSeen ==
  SelectorReturned =>
    \A k \in InputMonths :
      \E a \in 1..Len(monthly_images) :
        LET r == monthly_images[a]
        IN /\ KeyMonth(r.date) = k
           /\ r.image \in InMonth(k)
           /\ r.cloud_cover = collection[r.image].CLOUD_COVER
           /\ \A j \in InMonth(k) :
                /\ r.cloud_cover <= collection[j].CLOUD_COVER
                /\ collection[j].CLOUD_COVER = r.cloud_cover => r.image <= j

C2_Witness ==
  /\ SelectorReturned
  /\ Len(collection) = 3
  /\ Cardinality(InputMonths) = 1
  /\ collection[1].CLOUD_COVER > collection[2].CLOUD_COVER
  /\ collection[2].CLOUD_COVER = collection[3].CLOUD_COVER
  /\ Len(monthly_images) = 1
  /\ monthly_images[1].image = 2

\* C3: the list returned is strictly ascending by year-month key, as strings
\* and as calendar months, whatever the order of the input.
C3_StrictlyAscending ==
  SelectorReturned =>
    \A a \in 1..(Len(monthly_images) - 1) :
      /\ StrLess(monthly_images[a].date, monthly_images[a + 1].date)
      /\ KeyMonth(monthly_images[a].date) < KeyMonth(monthly_images[a + 1].date)

C3_Witness ==
  /\ SelectorReturned
  /\ Len(collection) = 3
  /\ MonthOf(collection[1].time_start) > MonthOf(collection[2].time_start)
  /\ MonthOf(collection[2].time_start) > MonthOf(collection[3].time_start)
  /\ Len(monthly_images) = 3

PipelineRun == entry \in {"main", "generate_animation"}

\* the path names the month: the key is a contiguous part of it
NamesMonth(path, date_str) ==
  \E a \in 1..Len(path) :
    a + Len(date_str) - 1 <= Len(path) /\ SubSeq(path, a, a + Len(date_str) - 1) = date_str

C4_Frames ==
  PipelineRun =>
    /\ Len(image_files) <= Len(monthly_images)
    /\ Len(rendered) \in {Len(image_files), Len(image_files) + 1}
    /\ \A j \in 1..Len(image_files) :
         /\ NamesMonth(image_files[j], monthly_images[j].date)
         /\ rendered[j].image = monthly_images[j].image
    /\ \A a, b \in 1..Len(image_files) : a /= b => image_files[a] /= image_files[b]
    /\ \A j \in 1..Len(read) : j <= Len(image_files) /\ read[j] = image_files[j]
    /\ encoded => read = image_files /\ Len(read) = Len(monthly_images)

C4_Step ==
  image_files' /= image_files =>
    /\ Len(image_files') = Len(image_files) + 1
    /\ SubSeq(image_files', 1, Len(image_files)) = image_files
    /\ Len(rendered') = Len(rendered) + 1
    /\ SubSeq(rendered', 1, Len(rendered)) = rendered
    /\ disk' = disk \cup {Last(image_files')}
    /\ ~encoded

\* C4: the frame files handed to create_gif are one per scene returned by
\* get_monthly_images, in that order; frames are rendered and downloaded one
\* at a time in that order; no two frames of a run share a file name.
C4_FramesInOrder == [](C4_Frames) /\ [][C4_Step]_vars

C4_Witness ==
  /\ PipelineRun
  /\ gif_path /= <<>>
  /\ Len(monthly_images) = 2
  /\ read = image_files
  /\ Len(image_files) = 2

\* the three lines printed at the end of a successful run
SuccessLines ==
  << <<"GIF created successfully", GifPath(location, mode)>>,
     <<"Number of frames", Len(monthly_images)>>,
     <<"Frame rate", fps>> >>

\* C5: a run started through main exits 1 when a stage fails or no scene is
\* found, exits 0 only after the GIF is encoded and the path, frame count and
\* frame rate are printed; with no scene found nothing is downloaded and the
\* encoder is not called.
C5_ExitCodes ==
  entry = "main" =>
    /\ (pc = "exit") = (exit_code /= <<>>)
    /\ raised /= <<>> => pc = "exit" /\ exit_code = <<1>>
    /\ exit_code = <<0>> =>
         /\ raised = <<>>
         /\ encoded
         /\ GifPath(location, mode) \in disk
         /\ Len(echoed) >= 3
         /\ SubSeq(echoed, Len(echoed) - 2, Len(echoed)) = SuccessLines
    /\ (queries > 0 /\ monthly_images = <<>>) =>
         /\ pc \in {"check_images", "exit"}
         /\ pc = "exit" => exit_code = <<1>>
         /\ rendered = <<>> /\ image_files = <<>> /\ disk = {}
         /\ read = <<>> /\ ~encoded

C5_Witness ==
  /\ entry = "main"
  /\ pc = "exit"
  /\ queries = 1
  /\ collection = <<>>
  /\ raised = <<"SystemExit", 1>>
  /\ exit_code = <<1>>
  /\ disk = {}

\* C6: every pair get_coordinates returns, and every pair that reaches
\* calculate_region, has latitude in [-90, 90] and longitude in [-180, 180].
C6_CoordinatesInRange ==
  /\ coords /= <<>> =>
       InRange(coords[1], -90, 90) /\ InRange(coords[2], -180, 180)
  /\ region /= <<>> =>
       InRange(region[1].lat, -90, 90) /\ InRange(region[1].lon, -180, 180)

\* the call is over
Ended == pc \in {"exit", "returned", "raised"}

\* C7: for a mode name that is no key of VISUALIZATION_MODES the call ends in
\* an error (an exception or a non-zero exit status) and no frame is rendered
\* for that name, on every surface.
C7_UnknownModeRejected ==
  /\ \A j \in 1..Len(rendered) : rendered[j].mode \in ModeKeys
  /\ (mode \notin ModeKeys /\ Ended) =>
       \/ raised /= <<>>
       \/ exit_code /= <<>> /\ exit_code /= <<0>>

\* a catalog query failed and its exception left get_monthly_images
SearchErrorEscaped == raised /= <<>> /\ raised[1] = "EEException"

\* the run ended at lines 381-383
NoImagesPath ==
  /\ pc = "exit"
  /\ raised = <<"SystemExit", 1>>
  /\ authenticated

\* an authentication error ends the run with status 1 before any catalog query
AuthenticationFatal ==
  PipelineRun =>
    /\ queries > 0 => authenticated
    /\ (raised = <<"SystemExit", 1>> /\ ~authenticated) =>
         pc = "exit" /\ exit_code = <<1>> /\ queries = 0 /\ region = <<>>

\* C8 as claimed: an error during scene search is caught and treated as an
\* empty result, so no run ends by the exception of a catalog query; an
\* authentication error is fatal.
C8_SearchErrorIsEmptyResult ==
  /\ ~SearchErrorEscaped
  /\ AuthenticationFatal

\* C8 as amended: an error during scene search is not caught by the search:
\* it leaves get_monthly_images, no frame is downloaded, and a run started
\* through main reports it and exits 1; the "no images found" path is taken
\* only when the size query answered zero; an authentication error is fatal
\* and ends the run with status 1 before any catalog query.
C8_SearchErrorPropagates ==
  /\ SearchErrorEscaped =>
       /\ monthly_images = <<>> /\ rendered = <<>> /\ image_files = <<>>
       /\ disk = {} /\ ~encoded
       /\ IF entry = "main"
          THEN pc = "exit" /\ exit_code = <<1>> /\ Last(echoed) = <<"Error", raised[2]>>
          ELSE pc = "raised" /\ exit_code = <<>>
  /\ NoImagesPath => queries = 1 /\ collection = <<>>
  /\ (PipelineRun /\ queries > 0 /\ collection = <<>> /\ Ended /\ ~SearchErrorEscaped)
       => NoImagesPath
  /\ AuthenticationFatal

C8_Witness ==
  /\ entry = "main"
  /\ SearchErrorEscaped
  /\ collection /= <<>>
  /\ queries = 2
  /\ exit_code = <<1>>

\* the two shapes of a recipe, by the keys it has
BandSelectionKeys == {"bands", "min", "max", "description"}

ExpressionKeys == {"expression", "bands", "palette", "min", "max", "description"}

BandNames == {"SR_B2", "SR_B3", "SR_B4", "SR_B5", "SR_B6", "SR_B8"}

IsBandSelection(recipe) ==
  /\ DOMAIN recipe = BandSelectionKeys
  /\ Len(recipe.bands) \in {1, 3}
  /\ \A j \in 1..Len(recipe.bands) : recipe.bands[j] \in BandNames
  /\ recipe.min < recipe.max

IsExpression(recipe) ==
  /\ DOMAIN recipe = ExpressionKeys
  /\ Len(recipe.bands) = 2
  /\ \A j \in 1..2 : Len(recipe.bands[j]) = 2 /\ recipe.bands[j][2] \in BandNames
  /\ recipe.bands[1][1] /= recipe.bands[2][1]
  /\ recipe.min = -10 /\ recipe.max = 10
  /\ Len(recipe.palette) = 3

\* the modes the claim counts as expression recipes
ExpressionModes == {"ndvi", "built_up", "snow"}

\* C9: VISUALIZATION_MODES has exactly the six keys, each recipe with a
\* description and exactly one of the two shapes (rgb is SR_B4, SR_B3, SR_B2 on
\* [0, 0.3]; ndvi, built_up and snow are expression recipes), and every image
\* apply_visualization returned was built by the expression branch exactly
\* when the recipe it used is an expression recipe.
C9_RecipeTable ==
  /\ ModeKeys = {"rgb", "false_color", "ndvi", "panchromatic", "built_up", "snow"}
  /\ \A m \in ModeKeys :
       /\ "description" \in DOMAIN VISUALIZATION_MODES[m]
       /\ IsBandSelection(VISUALIZATION_MODES[m]) /= IsExpression(VISUALIZATION_MODES[m])
       /\ IsExpression(VISUALIZATION_MODES[m]) = (m \in ExpressionModes)
  /\ VISUALIZATION_MODES["rgb"].bands = <<"SR_B4", "SR_B3", "SR_B2">>
  /\ VISUALIZATION_MODES["rgb"].min = 0 /\ VISUALIZATION_MODES["rgb"].max = 3
  /\ \A j \in 1..Len(rendered) :
       LET r == rendered[j]
           used == IF r.mode \in ModeKeys THEN r.mode ELSE "rgb"
       IN IF used \in ExpressionModes
          THEN /\ r.call = "expression.visualize"
               /\ r.expression = VISUALIZATION_MODES[used].expression
               /\ r.bands = VISUALIZATION_MODES[used].bands
               /\ r.palette = VISUALIZATION_MODES[used].palette
               /\ r.min = -10 /\ r.max = 10
          ELSE /\ r.call = "select.visualize"
               /\ r.bands = VISUALIZATION_MODES[used].bands
               /\ r.min = VISUALIZATION_MODES[used].min
               /\ r.max = VISUALIZATION_MODES[used].max

C9_Witness ==
  /\ PipelineRun
  /\ mode = "ndvi"
  /\ Len(rendered) = 2
  /\ rendered[2].call = "expression.visualize"
  /\ rendered[2].palette = <<"blue", "white", "green">>

\* C10: frame files are created before the encoder reads them, none is
\* deleted before the encoder has finished, none remains when the run
\* returns, and a run that fails while downloading or encoding leaves the
\* frame files it created on disk.
C10_FrameFiles ==
  PipelineRun =>
    /\ \A j \in 1..Len(read) : j <= Len(image_files) /\ read[j] = image_files[j]
    /\ ~encoded =>
         /\ removed = 0
         /\ \A j \in 1..Len(image_files) : image_files[j] \in disk
    /\ removed <= Len(image_files)
    /\ \A j \in 1..Len(image_files) : (image_files[j] \in disk) = (j > removed)
    /\ gif_path /= <<>> =>
         /\ encoded
         /\ read = image_files
         /\ disk = {gif_path[1]}
    /\ (raised /= <<>> /\ raised[1] = "Exception"
          /\ raised[2] \in {"download failed", "encoding failed"}) =>
         /\ gif_path = <<>>
         /\ \A j \in 1..Len(image_files) : image_files[j] \in disk

C10_Witness ==
  /\ PipelineRun
  /\ gif_path /= <<>>
  /\ Len(image_files) = 2
  /\ removed = 2
  /\ disk = {gif_path[1]}

\* the list a call returned, with each image handle resolved to the scene of
\* the collection it stands for (ee.Image(images_list.get(i)))
Denoted(coll, result) ==
  [j \in 1..Len(result) |->
     [scene |-> coll[result[j].image], date |-> result[j].date,
      cloud_cover |-> result[j].cloud_cover]]

\* the collection holding the scenes of a returned list, in the list's order
ScenesOf(coll, result) == [j \in 1..Len(result) |-> coll[result[j].image]]

\* coll with the scenes at positions a and b exchanged
Swapped(coll, a, b) ==
  [j \in 1..Len(coll) |-> IF j = a THEN coll[b] ELSE IF j = b THEN coll[a] ELSE coll[j]]

\* no two scenes of one calendar month have equal cloud cover
NoTies(coll) ==
  \A a, b \in 1..Len(coll) :
    (a /= b /\ MonthOf(coll[a].time_start) = MonthOf(coll[b].time_start))
      => coll[a].CLOUD_COVER /= coll[b].CLOUD_COVER

\* C11: without ties inside a month every permutation of the input yields the
\* same returned scenes; the scenes returned, fed back to the selector, come
\* back unchanged; a single scene comes back as the sole output.
\* Permutations are covered through exchanges of two neighbours: every
\* permutation is a product of such exchanges, an exchange keeps NoTies, and the
\* property is stated of every collection up to MaxLen.
C11_OrderOnlyUnderTies ==
  SelectorReturned =>
    /\ NoTies(collection) =>
         \A a \in 1..(Len(collection) - 1) :
           LET swapped == Swapped(collection, a, a + 1)
               result == MonthlyImages(swapped)
           IN /\ Len(result) = Len(monthly_images)
              /\ Denoted(swapped, result) = Denoted(collection, monthly_images)
    /\ LET again == ScenesOf(collection, monthly_images)
           result == MonthlyImages(again)
       IN /\ Denoted(again, result) = Denoted(collection, monthly_images)
          /\ \A j \in 1..Len(monthly_images) : result[j].image = j
    /\ Len(collection) = 1 =>
         /\ Len(monthly_images) = 1
         /\ monthly_images[1].image = 1
         /\ monthly_images[1].cloud_cover = collection[1].CLOUD_COVER
         /\ KeyMonth(monthly_images[1].date) = MonthOf(collection[1].time_start)

C11_Witness ==
  /\ SelectorReturned
  /\ Len(collection) = 3
  /\ NoTies(collection)
  /\ MonthOf(collection[1].time_start) = MonthOf(collection[3].time_start)
  /\ MonthOf(collection[2].time_start) < MonthOf(collection[1].time_start)
  /\ collection[1].CLOUD_COVER > collection[3].CLOUD_COVER
  /\ Len(monthly_images) = 2
  /\ monthly_images[1].image = 2
  /\ monthly_images[2].image = 3

\* the positions of the commas of s
Commas(s) == {j \in 1..Len(s) : s[j] = ","}

\* the text before the first comma, and the text between the first comma and
\* the second (or the end)
FirstPart(s) ==
  LET c == CHOOSE j \in Commas(s) : \A x \in Commas(s) : j <= x
  IN SubSeq(s, 1, c - 1)

SecondPart(s) ==
  LET c == CHOOSE j \in Commas(s) : \A x \in Commas(s) : j <= x
      later == {x \in Commas(s) : x > c}
      d == IF later = {} THEN Len(s) + 1
           ELSE CHOOSE j \in later : \A x \in later : j <= x
  IN SubSeq(s, c + 1, d - 1)

\* t without the blanks at its ends
Trimmed(t) ==
  LET inked == {j \in 1..Len(t) : t[j] /= " "}
  IN IF inked = {} THEN <<>>
     ELSE SubSeq(t, CHOOSE j \in inked : \A x \in inked : j <= x,
                    CHOOSE j \in inked : \A x \in inked : j >= x)

Unsigned(t) == IF t /= <<>> /\ t[1] = "-" THEN Tail(t) ELSE t

\* u is i digits, or i digits, a point and f digits, with a digit somewhere
HasShape(u, i, f) ==
  /\ i + f >= 1
  /\ \/ f = 0 /\ Len(u) = i /\ \A j \in 1..i : IsDigit(u[j])
     \/ /\ Len(u) = i + 1 + f
        /\ u[i + 1] = "."
        /\ \A j \in 1..Len(u) : j /= i + 1 => IsDigit(u[j])

\* t, blanks at the ends aside, is a decimal numeral
IsNumeral(t) ==
  LET u == Unsigned(Trimmed(t))
  IN \E i, f \in 0..Len(u) : HasShape(u, i, f)

DigitOf(c) == CHOOSE d \in 0..9 : DigitChar(d) = c

\* the sum of the digits of u at positions lo..hi, the last one weighing 1
RECURSIVE PlaceSum(_, _, _)
PlaceSum(u, lo, hi) ==
  IF lo > hi THEN 0
  ELSE DigitOf(u[lo]) * Pow10(hi - lo) + PlaceSum(u, lo + 1, hi)

\* x, a float [n, e] of the model, is the number the numeral t writes
IsValueOf(x, t) ==
  LET u == Unsigned(Trimmed(t))
      point == {j \in 1..Len(u) : u[j] = "."}
      i == IF point = {} THEN Len(u) ELSE (CHOOSE j \in point : TRUE) - 1
      f == IF point = {} THEN 0 ELSE Len(u) - i - 1
      whole == PlaceSum(u, 1, i)
      fraction == PlaceSum(u, i + 2, Len(u))
      sign == IF Trimmed(t)[1] = "-" THEN -1 ELSE 1
  IN x.n * Pow10(f) = sign * (whole * Pow10(f) + fraction) * Pow10(x.e)

\* the string reads as "lat,lon"
ReadsAsLatLon(s) ==
  /\ Commas(s) /= {}
  /\ IsNumeral(FirstPart(s))
  /\ IsNumeral(SecondPart(s))

\* C12: a location with a comma whose first two parts parse as numbers comes
\* back as exactly those two numbers, latitude first, and the geocoder is not
\* consulted; for any other string the geocoder is consulted once, and its
\* failure or not-found answer ends the call in a ValueError with no
\* coordinates returned.
C12_ParsedOrGeocoded ==
  entry = "get_coordinates" =>
    /\ pc = "get_coordinates" => geocoder_calls = 0 /\ coords = <<>>
    /\ pc = "returned" =>
         /\ coords /= <<>>
         /\ raised = <<>>
         /\ IF ReadsAsLatLon(location)
            THEN /\ geocoder_calls = 0
                 /\ IsValueOf(coords[1], FirstPart(location))
                 /\ IsValueOf(coords[2], SecondPart(location))
            ELSE /\ geocoder_calls = 1
                 /\ coords \in GeocoderAnswers
    /\ pc = "raised" =>
         /\ ~ReadsAsLatLon(location)
         /\ geocoder_calls = 1
         /\ coords = <<>>
         /\ raised[1] = "ValueError"
    /\ pc \in {"get_coordinates", "returned", "raised"}

C12_Witness ==
  /\ entry = "get_coordinates"
  /\ pc = "returned"
  /\ location = <<"-", "9", ",", "1">>
  /\ geocoder_calls = 0
  /\ coords = <<[n |-> -9, e |-> 0], [n |-> 1, e |-> 0]>>

====
